---- MODULE Spec2Model ----
(***************************************************************************)
(* Model of homeassistant/components/ttlock/lock.py: setup_platform and    *)
(* the TTLockDevice entity (get_token, lock, unlock, update).              *)
(*                                                                         *)
(* The vendor cloud is the environment: every HTTP request the code sends  *)
(* gets a response chosen from a small set (a status and a JSON body, or   *)
(* a transport exception raised by the requests library) after a latency.  *)
(* Each handler runs to completion in one step (the code is synchronous    *)
(* and blocking); the requests it issued are kept in `call`.               *)
(***************************************************************************)
EXTENDS Integers, Sequences, FiniteSets, TLC

VARIABLES
    pc,        \* lifecycle of the platform: boot, adding, running, failed
    now,       \* wall clock, milliseconds since the process started
    entities,  \* the entities handed to add_entities: <<>> or <<device>>
    call       \* the last handler invocation: operation, requests, outcome

vars == <<pc, now, entities, call>>

(***************************************************************************)
(* Bounds of the exploration.                                              *)
(***************************************************************************)
MaxTime == 1000
TimeStep == 500

Latencies == {0, TimeStep}

(***************************************************************************)
(* Python values.                                                          *)
(***************************************************************************)
None == "None"
NoTime == [none |-> TRUE]

(***************************************************************************)
(* Platform configuration (PLATFORM_SCHEMA: defaults for domain and name). *)
(***************************************************************************)
config ==
    [domain |-> "euapi.ttlock.com", name |-> "TTLock", lockId |-> "lock-1",
     client_id |-> "cid", client_secret |-> "secret",
     username |-> "user", password |-> "pw"]

(***************************************************************************)
(* Responses of the vendor API.  exc = TRUE: requests raised (timeout,     *)
(* connection error) instead of returning a response.                      *)
(***************************************************************************)
Statuses == {200, 500}
ErrorStatuses == Statuses \ {200}

Tokens == {"tokA", "tokB"}
ExpiresIn == {24, 25, 26}

Raised == [exc |-> TRUE, status |-> 0, body |-> [error |-> "transport"]]

Http(status, body) == [exc |-> FALSE, status |-> status, body |-> body]

HttpErrors == {Http(s, [error |-> "http"]) : s \in ErrorStatuses}

TokenResponses ==
    {Http(200, [access_token |-> t, expires_in |-> e]) : t \in Tokens, e \in ExpiresIn}
        \cup HttpErrors \cup {Raised}

PlainResponses == {Http(200, [errcode |-> 0])} \cup HttpErrors \cup {Raised}

DetailBodies ==
    { [lockAlias |-> "Front", autoLockTime |-> 10, electricQuantity |-> 80,
       firmwareRevision |-> "6.0.1", hardwareRevision |-> "1.6",
       modelNum |-> "SN139", passageMode |-> 2, passageModeAutoUnlock |-> 2,
       soundVolume |-> 1, tamperAlert |-> 1] }

DetailResponses == {Http(200, b) : b \in DetailBodies} \cup HttpErrors \cup {Raised}

OpenStates == {0, 1, 2}

OpenStateResponses ==
    {Http(200, [state |-> s]) : s \in OpenStates} \cup HttpErrors \cup {Raised}

RecordLists ==
    { <<>>,
      <<[username |-> "alice", lockDate |-> 90000]>>,
      <<[username |-> "bob", lockDate |-> 150000]>> }

RecordResponses ==
    {Http(200, [list |-> l]) : l \in RecordLists} \cup HttpErrors \cup {Raised}

(***************************************************************************)
(* response.status_code == 200                                             *)
(***************************************************************************)
StatusOk(response) == response.status = 200

(***************************************************************************)
(* int(expires_in) * 1000 + current_milli_time() - 25000, where t is the   *)
(* clock when the response is processed.  expires_in is a JSON integer, on *)
(* which int() changes nothing.                                            *)
(***************************************************************************)
\* Variant: the safety margin is not subtracted.
ExpiryTimeNoMargin(expires_in, t) == expires_in * 1000 + t

ExpiryTime(expires_in, t) == expires_in * 1000 + t - 25000

(***************************************************************************)
(* datetime.fromtimestamp(int(lockDate) / 1000).strftime("%a, %d %b %Y     *)
(* %H:%M"): the calendar minute of the timestamp; seconds and milliseconds *)
(* are dropped by the format.                                              *)
(***************************************************************************)
strftime(lockDate) == [format |-> "%a, %d %b %Y %H:%M", minute |-> lockDate \div 60000]

(***************************************************************************)
(* TTLockDevice.__init__                                                   *)
(***************************************************************************)
TTLockDevice(access_token, token_expiry_time, domain, client_id, client_secret, user, password, lock_id, name) ==
    [access_token |-> access_token,
     access_token_expiry_time |-> token_expiry_time,
     domain |-> domain, client_id |-> client_id,
     client_secret |-> client_secret, user |-> user, password |-> password,
     lock_id |-> lock_id, nickname |-> name,
     auto_lock_time |-> -1, electric_quantity |-> -1,
     firmware_revision |-> None, hardware_revision |-> None,
     lock_alias |-> None, model_num |-> None,
     passage_mode |-> -1, passage_mode_auto_unlock |-> -1,
     sound_volume |-> -1, tamper_alert |-> -1,
     last_user |-> "", last_entry_time |-> NoTime,
     is_locked |-> TRUE, responsive |-> FALSE]

available(self) == self.responsive

is_locked(self) == self.is_locked

(***************************************************************************)
(* One HTTP exchange: the request is recorded with the clock at which it   *)
(* was built and the clock at which its response (or exception) arrived.   *)
(* ctx is the running invocation: [self, now, reqs, raised].               *)
(***************************************************************************)
Exchange(ctx, endpoint, data, response, latency) ==
    [ctx EXCEPT
        !.reqs = Append(@, [endpoint |-> endpoint, data |-> data,
                            sent |-> ctx.now, received |-> ctx.now + latency,
                            response |-> response]),
        !.now = @ + latency,
        !.raised = response.exc]

\* A token request, whose response is processed `latency` later.
SendToken(ctx, data, response, latency) ==
    Exchange(ctx, "oauth2/token", data, response, latency)

\* Any other request.  The code reads the clock after a response only to
\* compute a token expiry, so the time these requests take is left to Tick.
Send(ctx, endpoint, data, response) == Exchange(ctx, endpoint, data, response, 0)

TokenData(client_id, client_secret, user, password) ==
    [client_id |-> client_id, client_secret |-> client_secret,
     username |-> user, password |-> password]

AuthData(self, t) ==
    [clientId |-> self.client_id, accessToken |-> self.access_token,
     lockId |-> self.lock_id, date |-> t]

(***************************************************************************)
(* current_milli_time() > self._access_token_expiry_time                   *)
(***************************************************************************)
\* Variant: the token counts as expired at the expiry instant itself.
TokenExpiredAtOrAfter(t, self) == t >= self.access_token_expiry_time

\* Variant: the expiry time is not looked at, every check refreshes.
TokenAlwaysExpired(t, self) == TRUE

TokenExpired(t, self) == t > self.access_token_expiry_time

\* Variant of get_token: a refused token request drops the cached token.
get_token_drops(ctx, rToken, lToken) ==
    IF ~TokenExpired(ctx.now, ctx.self) THEN ctx
    ELSE
        LET c1 == SendToken(ctx,
                       TokenData(ctx.self.client_id, ctx.self.client_secret,
                                 ctx.self.user, ctx.self.password),
                       rToken, lToken)
        IN  IF c1.raised THEN c1
            ELSE IF StatusOk(rToken)
                 THEN [c1 EXCEPT
                         !.self.access_token = rToken.body.access_token,
                         !.self.access_token_expiry_time =
                             ExpiryTime(rToken.body.expires_in, c1.now)]
                 ELSE [c1 EXCEPT !.self.access_token = None]

(***************************************************************************)
(* TTLockDevice.get_token                                                  *)
(***************************************************************************)
get_token(ctx, rToken, lToken) ==
    IF ~TokenExpired(ctx.now, ctx.self) THEN ctx
    ELSE
        LET c1 == SendToken(ctx,
                       TokenData(ctx.self.client_id, ctx.self.client_secret,
                                 ctx.self.user, ctx.self.password),
                       rToken, lToken)
        IN  IF c1.raised THEN c1
            ELSE IF StatusOk(rToken)
                 THEN [c1 EXCEPT
                         !.self.access_token = rToken.body.access_token,
                         !.self.access_token_expiry_time =
                             ExpiryTime(rToken.body.expires_in, c1.now)]
                 ELSE c1

(***************************************************************************)
(* TTLockDevice.unlock, TTLockDevice.lock                                  *)
(***************************************************************************)
\* Variant of unlock: a refused unlock request is sent a second time.
unlock_retries(ctx, rToken, lToken, rUnlock) ==
    LET c1 == get_token(ctx, rToken, lToken)
        c2 == Send(c1, "v3/lock/unlock", AuthData(c1.self, c1.now), rUnlock)
        c3 == Send(c2, "v3/lock/unlock", AuthData(c2.self, c2.now), rUnlock)
    IN  IF c1.raised THEN c1
        ELSE IF c2.raised THEN c2
        ELSE IF StatusOk(rUnlock) THEN [c2 EXCEPT !.self.is_locked = FALSE]
        ELSE c3

\* Variant of unlock: the status of the response is not looked at.
unlock_unchecked(ctx, rToken, lToken, rUnlock) ==
    LET c1 == get_token(ctx, rToken, lToken)
        c2 == Send(c1, "v3/lock/unlock", AuthData(c1.self, c1.now), rUnlock)
    IN  IF c1.raised THEN c1
        ELSE IF c2.raised THEN c2
        ELSE [c2 EXCEPT !.self.is_locked = FALSE]

unlock(ctx, rToken, lToken, rUnlock) ==
    LET c1 == get_token(ctx, rToken, lToken)
        c2 == Send(c1, "v3/lock/unlock", AuthData(c1.self, c1.now), rUnlock)
    IN  IF c1.raised THEN c1
        ELSE IF c2.raised THEN c2
        ELSE IF StatusOk(rUnlock) THEN [c2 EXCEPT !.self.is_locked = FALSE]
        ELSE c2

\* Variant of lock: a refused lock request invalidates the cached token.
lock_invalidates(ctx, rToken, lToken, rLock) ==
    LET c1 == get_token(ctx, rToken, lToken)
        c2 == Send(c1, "v3/lock/lock", AuthData(c1.self, c1.now), rLock)
    IN  IF c1.raised THEN c1
        ELSE IF c2.raised THEN c2
        ELSE IF StatusOk(rLock) THEN [c2 EXCEPT !.self.is_locked = TRUE]
        ELSE [c2 EXCEPT !.self.access_token_expiry_time = 0]

\* Variant of lock: an accepted lock request marks the device responsive.
lock_marks_responsive(ctx, rToken, lToken, rLock) ==
    LET c1 == get_token(ctx, rToken, lToken)
        c2 == Send(c1, "v3/lock/lock", AuthData(c1.self, c1.now), rLock)
    IN  IF c1.raised THEN c1
        ELSE IF c2.raised THEN c2
        ELSE IF StatusOk(rLock)
             THEN [c2 EXCEPT !.self.is_locked = TRUE, !.self.responsive = TRUE]
        ELSE c2

\* Variant of lock: the assignment is the one of unlock.
lock_pasted(ctx, rToken, lToken, rLock) ==
    LET c1 == get_token(ctx, rToken, lToken)
        c2 == Send(c1, "v3/lock/lock", AuthData(c1.self, c1.now), rLock)
    IN  IF c1.raised THEN c1
        ELSE IF c2.raised THEN c2
        ELSE IF StatusOk(rLock) THEN [c2 EXCEPT !.self.is_locked = FALSE]
        ELSE c2

lock(ctx, rToken, lToken, rLock) ==
    LET c1 == get_token(ctx, rToken, lToken)
        c2 == Send(c1, "v3/lock/lock", AuthData(c1.self, c1.now), rLock)
    IN  IF c1.raised THEN c1
        ELSE IF c2.raised THEN c2
        ELSE IF StatusOk(rLock) THEN [c2 EXCEPT !.self.is_locked = TRUE]
        ELSE c2

(***************************************************************************)
(* TTLockDevice.update: the assignments made from the detail response.     *)
(***************************************************************************)
\* Variant: is_locked is not reset to the locked default.
ApplyDetailKeepLocked(self, body) ==
    [self EXCEPT
        !.lock_alias = body.lockAlias,
        !.responsive = TRUE,
        !.auto_lock_time = body.autoLockTime,
        !.electric_quantity = body.electricQuantity,
        !.firmware_revision = body.firmwareRevision,
        !.hardware_revision = body.hardwareRevision,
        !.model_num = body.modelNum,
        !.passage_mode = body.passageMode,
        !.passage_mode_auto_unlock = body.passageModeAutoUnlock,
        !.sound_volume = body.soundVolume,
        !.tamper_alert = body.tamperAlert]

ApplyDetail(self, body) ==
    [self EXCEPT
        !.lock_alias = body.lockAlias,
        !.responsive = TRUE,
        !.is_locked = TRUE,
        !.auto_lock_time = body.autoLockTime,
        !.electric_quantity = body.electricQuantity,
        !.firmware_revision = body.firmwareRevision,
        !.hardware_revision = body.hardwareRevision,
        !.model_num = body.modelNum,
        !.passage_mode = body.passageMode,
        !.passage_mode_auto_unlock = body.passageModeAutoUnlock,
        !.sound_volume = body.soundVolume,
        !.tamper_alert = body.tamperAlert]

(***************************************************************************)
(* TTLockDevice.update: the queryOpenState response.                       *)
(***************************************************************************)
ApplyOpenState(self, response) ==
    IF StatusOk(response) /\ response.body.state = 1
    THEN [self EXCEPT !.is_locked = FALSE]
    ELSE self

(***************************************************************************)
(* TTLockDevice.update: the lockRecord/list response.  list[0] of an empty *)
(* list raises IndexError before anything is assigned.                     *)
(***************************************************************************)
\* Variant: only the user of the record is taken.
ApplyRecordsUserOnly(ctx, response) ==
    IF ~StatusOk(response) THEN ctx
    ELSE IF Len(response.body.list) = 0 THEN [ctx EXCEPT !.raised = TRUE]
    ELSE [ctx EXCEPT !.self.last_user = response.body.list[1].username]

ApplyRecords(ctx, response) ==
    IF ~StatusOk(response) THEN ctx
    ELSE IF Len(response.body.list) = 0 THEN [ctx EXCEPT !.raised = TRUE]
    ELSE [ctx EXCEPT
            !.self.last_user = response.body.list[1].username,
            !.self.last_entry_time = strftime(response.body.list[1].lockDate)]

RecordData(self, t) ==
    [clientId |-> self.client_id, accessToken |-> self.access_token,
     lockId |-> self.lock_id, pageNo |-> 1, pageSize |-> 1, date |-> t]

\* Variant of update: the locked default is assigned before the status of
\* the detail response is looked at.
update_default_first(ctx, rDetail, rState, rList) ==
    LET c0 == Send(ctx, "v3/lock/detail", AuthData(ctx.self, ctx.now), rDetail)
        c1 == [c0 EXCEPT !.self.is_locked = TRUE]
        c2 == [c1 EXCEPT !.self = ApplyDetail(@, rDetail.body)]
        c3 == Send(c2, "v3/lock/queryOpenState", AuthData(c2.self, c2.now), rState)
        c4 == [c3 EXCEPT !.self = ApplyOpenState(@, rState)]
        c5 == Send(c4, "v3/lockRecord/list", RecordData(c4.self, c4.now), rList)
    IN  IF c0.raised THEN c0
        ELSE IF ~StatusOk(rDetail) THEN c1
        ELSE IF c3.raised THEN c3
        ELSE IF c5.raised THEN c5
        ELSE ApplyRecords(c5, rList)

\* Variant of update: a queryOpenState response other than 200 ends the
\* update.
update_stops_at_state(ctx, rDetail, rState, rList) ==
    LET c1 == Send(ctx, "v3/lock/detail", AuthData(ctx.self, ctx.now), rDetail)
        c2 == [c1 EXCEPT !.self = ApplyDetail(@, rDetail.body)]
        c3 == Send(c2, "v3/lock/queryOpenState", AuthData(c2.self, c2.now), rState)
        c4 == [c3 EXCEPT !.self = ApplyOpenState(@, rState)]
        c5 == Send(c4, "v3/lockRecord/list", RecordData(c4.self, c4.now), rList)
    IN  IF c1.raised THEN c1
        ELSE IF ~StatusOk(rDetail) THEN c1
        ELSE IF c3.raised THEN c3
        ELSE IF ~StatusOk(rState) THEN c3
        ELSE IF c5.raised THEN c5
        ELSE ApplyRecords(c5, rList)

\* Variant of update: a detail response other than 200 marks the device
\* unresponsive.
update_marks_unresponsive(ctx, rDetail, rState, rList) ==
    LET c1 == Send(ctx, "v3/lock/detail", AuthData(ctx.self, ctx.now), rDetail)
        c2 == [c1 EXCEPT !.self = ApplyDetail(@, rDetail.body)]
        c3 == Send(c2, "v3/lock/queryOpenState", AuthData(c2.self, c2.now), rState)
        c4 == [c3 EXCEPT !.self = ApplyOpenState(@, rState)]
        c5 == Send(c4, "v3/lockRecord/list", RecordData(c4.self, c4.now), rList)
    IN  IF c1.raised THEN c1
        ELSE IF ~StatusOk(rDetail) THEN [c1 EXCEPT !.self.responsive = FALSE]
        ELSE IF c3.raised THEN c3
        ELSE IF c5.raised THEN c5
        ELSE ApplyRecords(c5, rList)

(***************************************************************************)
(* TTLockDevice.update                                                     *)
(***************************************************************************)
update(ctx, rDetail, rState, rList) ==
    LET c1 == Send(ctx, "v3/lock/detail", AuthData(ctx.self, ctx.now), rDetail)
        c2 == [c1 EXCEPT !.self = ApplyDetail(@, rDetail.body)]
        c3 == Send(c2, "v3/lock/queryOpenState", AuthData(c2.self, c2.now), rState)
        c4 == [c3 EXCEPT !.self = ApplyOpenState(@, rState)]
        c5 == Send(c4, "v3/lockRecord/list", RecordData(c4.self, c4.now), rList)
    IN  IF c1.raised THEN c1
        ELSE IF ~StatusOk(rDetail) THEN c1
        ELSE IF c3.raised THEN c3
        ELSE IF c5.raised THEN c5
        ELSE ApplyRecords(c5, rList)

\* Variant of setup_platform: an entity without a token is added when the
\* token request is answered with another status than 200.
setup_platform_always_adds(ctx, cfg, rToken, lToken) ==
    LET c1 == SendToken(ctx,
                   TokenData(cfg.client_id, cfg.client_secret, cfg.username, cfg.password),
                   rToken, lToken)
        access_token == IF StatusOk(rToken) THEN rToken.body.access_token ELSE None
        token_expiry_time ==
            IF StatusOk(rToken) THEN ExpiryTime(rToken.body.expires_in, c1.now) ELSE 0
    IN  IF c1.raised THEN c1
        ELSE [c1 EXCEPT !.entities =
                <<TTLockDevice(access_token, token_expiry_time,
                               cfg.domain, cfg.client_id, cfg.client_secret,
                               cfg.username, cfg.password, cfg.lockId, cfg.name)>>]

(***************************************************************************)
(* setup_platform: the initial token request; the entity is created and    *)
(* handed to add_entities only when it returns 200.                        *)
(***************************************************************************)
setup_platform(ctx, cfg, rToken, lToken) ==
    LET c1 == SendToken(ctx,
                   TokenData(cfg.client_id, cfg.client_secret, cfg.username, cfg.password),
                   rToken, lToken)
    IN  IF c1.raised THEN c1
        ELSE IF StatusOk(rToken)
        THEN [c1 EXCEPT !.entities =
                <<TTLockDevice(rToken.body.access_token,
                               ExpiryTime(rToken.body.expires_in, c1.now),
                               cfg.domain, cfg.client_id, cfg.client_secret,
                               cfg.username, cfg.password, cfg.lockId, cfg.name)>>]
        ELSE c1

(***************************************************************************)
(* State machine.                                                          *)
(***************************************************************************)
NoCall == [op |-> "none", start |-> 0, pre |-> <<>>, reqs |-> <<>>, raised |-> FALSE]

Init ==
    /\ pc = "boot"
    /\ now = 0
    /\ entities = <<>>
    /\ call = NoCall

\* The token responses worth drawing: a handler that sends no token request
\* reads none.
TokenInputs == IF TokenExpired(now, entities[1]) THEN TokenResponses ELSE {Raised}

TokenLatencies == IF TokenExpired(now, entities[1]) THEN Latencies ELSE {0}

Begin == [self |-> entities[1], now |-> now, reqs |-> <<>>, raised |-> FALSE]

Finish(op, ctx) ==
    /\ ctx.now <= MaxTime
    /\ entities' = <<ctx.self>>
    /\ now' = ctx.now
    /\ call' = [op |-> op, start |-> now, pre |-> entities,
                reqs |-> ctx.reqs, raised |-> ctx.raised]

\* The host loads the platform once.
SetupPlatform ==
    /\ pc = "boot"
    /\ \E rToken \in TokenResponses, lToken \in Latencies :
        LET ctx == setup_platform([entities |-> <<>>, now |-> now,
                                   reqs |-> <<>>, raised |-> FALSE],
                                  config, rToken, lToken)
        IN  /\ ctx.now <= MaxTime
            /\ entities' = ctx.entities
            /\ now' = ctx.now
            /\ call' = [op |-> "setup", start |-> now, pre |-> entities,
                        reqs |-> ctx.reqs, raised |-> ctx.raised]
            /\ pc' = IF ctx.entities = <<>> THEN "failed" ELSE "adding"

\* The host polls the entity; update_before_add=True makes the first poll
\* precede any service call.  What the host does with an exception of that
\* first poll is not in this file: the entity is taken to stay in use.
Update ==
    /\ pc \in {"adding", "running"}
    /\ \E rDetail \in DetailResponses, rState \in OpenStateResponses,
          rList \in RecordResponses :
        Finish("update", update(Begin, rDetail, rState, rList))
    /\ pc' = "running"

Lock ==
    /\ pc = "running"
    /\ \E rToken \in TokenInputs, rLock \in PlainResponses,
          lToken \in TokenLatencies :
        Finish("lock", lock(Begin, rToken, lToken, rLock))
    /\ pc' = pc

Unlock ==
    /\ pc = "running"
    /\ \E rToken \in TokenInputs, rUnlock \in PlainResponses,
          lToken \in TokenLatencies :
        Finish("unlock", unlock(Begin, rToken, lToken, rUnlock))
    /\ pc' = pc

\* Time passes between invocations.
Tick ==
    /\ now + TimeStep <= MaxTime
    /\ now' = now + TimeStep
    /\ UNCHANGED <<pc, entities, call>>

Next == SetupPlatform \/ Update \/ Lock \/ Unlock \/ Tick

Spec == Init /\ [][Next]_vars

(***************************************************************************)
(* Vocabulary of the properties: the device after the last invocation, the *)
(* device before it, and the requests the invocation sent.                 *)
(***************************************************************************)
dev == entities[1]

pre == call.pre[1]

Answered(i) == ~call.reqs[i].response.exc

Sent(endpoint) == {i \in DOMAIN call.reqs : call.reqs[i].endpoint = endpoint}

Accepted(endpoint) ==
    {i \in Sent(endpoint) : Answered(i) /\ call.reqs[i].response.status = 200}

Rejected(endpoint) ==
    {i \in Sent(endpoint) : Answered(i) /\ call.reqs[i].response.status # 200}

DeviceState(self) ==
    [is_locked |-> self.is_locked, responsive |-> self.responsive,
     lock_alias |-> self.lock_alias, auto_lock_time |-> self.auto_lock_time,
     electric_quantity |-> self.electric_quantity,
     firmware_revision |-> self.firmware_revision,
     hardware_revision |-> self.hardware_revision,
     model_num |-> self.model_num, passage_mode |-> self.passage_mode,
     passage_mode_auto_unlock |-> self.passage_mode_auto_unlock,
     sound_volume |-> self.sound_volume, tamper_alert |-> self.tamper_alert,
     last_user |-> self.last_user, last_entry_time |-> self.last_entry_time]

(***************************************************************************)
(* C1 as stated: the token check of lock()/unlock() sends no token request *)
(* when now < expires_at and exactly one when now >= expires_at.           *)
(***************************************************************************)
C1_RefreshAtExpiry ==
    call.op \in {"lock", "unlock"} =>
        /\ call.start < pre.access_token_expiry_time
              => Cardinality(Sent("oauth2/token")) = 0
        /\ call.start >= pre.access_token_expiry_time
              => Cardinality(Sent("oauth2/token")) = 1

(***************************************************************************)
(* C1 amended: the token check sends no token request when                 *)
(* now <= expires_at (the instant now = expires_at included) and exactly   *)
(* one when now > expires_at.                                              *)
(***************************************************************************)
C1_RefreshAfterExpiry ==
    call.op \in {"lock", "unlock"} =>
        /\ call.start <= pre.access_token_expiry_time
              => Cardinality(Sent("oauth2/token")) = 0
        /\ call.start > pre.access_token_expiry_time
              => Cardinality(Sent("oauth2/token")) = 1

C1_Witness ==
    /\ call.op \in {"lock", "unlock"}
    /\ call.start = pre.access_token_expiry_time
    /\ Sent("oauth2/token") = {}
    /\ Len(call.reqs) = 1

(***************************************************************************)
(* C2: whenever the token is expired when lock(), unlock() or update()     *)
(* starts, the first request of the invocation is a token request.         *)
(***************************************************************************)
C2_TokenCheckFirst ==
    (/\ call.op \in {"lock", "unlock", "update"}
     /\ call.start > pre.access_token_expiry_time)
        => /\ Len(call.reqs) >= 1
           /\ call.reqs[1].endpoint = "oauth2/token"

(***************************************************************************)
(* C3: a lock request answered 200 leaves is_locked true and an unlock     *)
(* request answered 200 leaves it false, whatever it was before and        *)
(* whatever the token request of the same invocation returned.             *)
(***************************************************************************)
C3_OptimisticUpdate ==
    /\ Accepted("v3/lock/lock") # {} => is_locked(dev) = TRUE
    /\ Accepted("v3/lock/unlock") # {} => is_locked(dev) = FALSE

C3_Witness ==
    /\ call.op = "lock"
    /\ is_locked(pre) = FALSE
    /\ Rejected("oauth2/token") # {}
    /\ Accepted("v3/lock/lock") # {}
    /\ is_locked(dev) = TRUE

(***************************************************************************)
(* C4: a lock or unlock request answered with a non-200 status leaves      *)
(* is_locked as it was and the invocation returns without raising.         *)
(***************************************************************************)
C4_RejectedIsNoOp ==
    Rejected("v3/lock/lock") \cup Rejected("v3/lock/unlock") # {} =>
        /\ is_locked(dev) = is_locked(pre)
        /\ ~call.raised

C4_Witness ==
    /\ call.op = "unlock"
    /\ Rejected("v3/lock/unlock") # {}
    /\ is_locked(pre) = TRUE
    /\ is_locked(dev) = TRUE
    /\ ~call.raised

(***************************************************************************)
(* C5: after an update() whose detail request is answered 200, is_locked   *)
(* is false exactly when queryOpenState was answered 200 with state = 1,   *)
(* and true otherwise, whatever is_locked was before.                      *)
(***************************************************************************)
OpenReported ==
    \E i \in Accepted("v3/lock/queryOpenState") : call.reqs[i].response.body.state = 1

C5_LockedFromOpenState ==
    (call.op = "update" /\ Accepted("v3/lock/detail") # {}) =>
        (is_locked(dev) = FALSE <=> OpenReported)

C5_Witness ==
    /\ call.op = "update"
    /\ is_locked(pre) = FALSE
    /\ Accepted("v3/lock/detail") # {}
    /\ Sent("v3/lock/queryOpenState") # {}
    /\ ~OpenReported
    /\ is_locked(dev) = TRUE

(***************************************************************************)
(* C6: an update() whose detail request is answered with a non-200 status  *)
(* leaves every device-state field and the responsiveness flag as before.  *)
(***************************************************************************)
C6_FailedDetailFrame ==
    (call.op = "update" /\ Rejected("v3/lock/detail") # {}) =>
        DeviceState(dev) = DeviceState(pre)

C6_Witness ==
    /\ call.op = "update"
    /\ Rejected("v3/lock/detail") # {}
    /\ pre.responsive
    /\ is_locked(pre) = FALSE
    /\ pre.last_user # ""
    /\ DeviceState(dev) = DeviceState(pre)

(***************************************************************************)
(* C7 as stated: after an update() whose detail request fails, the entity  *)
(* is unavailable.                                                         *)
(***************************************************************************)
DetailFailed == call.op = "update" /\ Accepted("v3/lock/detail") = {}

C7_UnavailableAfterFailure == DetailFailed => ~available(dev)

(***************************************************************************)
(* C7 amended: after an update() whose detail request fails, availability  *)
(* is what it was before the call: still false if no earlier update()      *)
(* succeeded, still true if one did.                                       *)
(***************************************************************************)
C7_AvailabilityKept == DetailFailed => available(dev) = available(pre)

C7_Witness ==
    /\ DetailFailed
    /\ available(pre)
    /\ available(dev)

(***************************************************************************)
(* C8 as stated: when the initial token request is answered with a non-200 *)
(* status, a controller is still constructed.                              *)
(***************************************************************************)
SetupRejected == call.op = "setup" /\ Rejected("oauth2/token") # {}

C9_ExpiryMargin ==
    \A i \in Accepted("oauth2/token") :
        dev.access_token_expiry_time =
            call.reqs[i].received + call.reqs[i].response.body.expires_in * 1000 - 25000

C9_Witness ==
    /\ call.op \in {"lock", "unlock"}
    /\ \E i \in Accepted("oauth2/token") :
          /\ call.reqs[i].received > call.reqs[i].sent
          /\ dev.access_token_expiry_time # pre.access_token_expiry_time

(***************************************************************************)
(* C10: when the record-list request of update() is answered with a        *)
(* non-200 status or with 200 and an empty list, last_user and             *)
(* last_entry_time keep their values and update() returns without raising. *)
(***************************************************************************)
NoRecord ==
    \/ Rejected("v3/lockRecord/list") # {}
    \/ \E i \in Accepted("v3/lockRecord/list") : call.reqs[i].response.body.list = <<>>

C10_NoRecordIsSilent ==
    (call.op = "update" /\ NoRecord) =>
        /\ dev.last_user = pre.last_user
        /\ dev.last_entry_time = pre.last_entry_time
        /\ ~call.raised

(***************************************************************************)
(* C11 as stated: immediately after any token request answered 200 the     *)
(* token is VALID, now < expires_at, whatever expires_in was returned.     *)
(***************************************************************************)
C11_ValidAfterRefresh ==
    \A i \in Accepted("oauth2/token") :
        call.reqs[i].received < dev.access_token_expiry_time

(***************************************************************************)
(* C11 amended: immediately after a token request answered 200 the token   *)
(* is VALID (now < expires_at) exactly when expires_in * 1000 exceeds the  *)
(* 25000 ms margin, otherwise it is already at or past expires_at; and a   *)
(* VALID token stops being VALID only in a step in which time passes.      *)
(***************************************************************************)
TokenValid == entities # <<>> /\ now < dev.access_token_expiry_time

ValidIffBeyondMargin ==
    \A i \in Accepted("oauth2/token") :
        call.reqs[i].received < dev.access_token_expiry_time
            <=> call.reqs[i].response.body.expires_in * 1000 > 25000

C11_TokenStateMachine ==
    [][/\ ValidIffBeyondMargin'
       /\ (TokenValid /\ ~TokenValid') => now' > now]_vars

C11_Witness ==
    /\ call.op \in {"lock", "unlock"}
    /\ call.start > pre.access_token_expiry_time
    /\ Accepted("oauth2/token") # {}
    /\ TokenValid

(***************************************************************************)
(* C12: when the token request of the token check is answered with a       *)
(* non-200 status, access_token and expires_at stay as they were, the      *)
(* enclosing lock()/unlock() still sends its request with the stale token, *)
(* and the refusal is not reported: the call raises only if the lock or    *)
(* unlock request itself raised.                                           *)
(***************************************************************************)
Commands == Sent("v3/lock/lock") \cup Sent("v3/lock/unlock")

C12_StaleTokenUsed ==
    (call.op \in {"lock", "unlock"} /\ Rejected("oauth2/token") # {}) =>
        /\ dev.access_token = pre.access_token
        /\ dev.access_token_expiry_time = pre.access_token_expiry_time
        /\ Commands = {2}
        /\ call.reqs[2].data.accessToken = pre.access_token
        /\ call.raised = call.reqs[2].response.exc

C12_Witness ==
    /\ call.op = "lock"
    /\ Rejected("oauth2/token") # {}
    /\ Accepted("v3/lock/lock") = {2}
    /\ call.reqs[2].data.accessToken = pre.access_token
    /\ call.start > pre.access_token_expiry_time
    /\ ~call.raised

(***************************************************************************)
(* C13: in lock(), unlock() and update() the cached access_token and       *)
(* expires_at change only when a token request of that invocation was      *)
(* answered 200; the responses of the lock, unlock, detail, queryOpenState *)
(* and record-list requests never change them.                             *)
(***************************************************************************)
TokenState(self) ==
    [access_token |-> self.access_token,
     access_token_expiry_time |-> self.access_token_expiry_time]

C13_TokenFrame ==
    (/\ call.op \in {"lock", "unlock", "update"}
     /\ TokenState(dev) # TokenState(pre))
        => Accepted("oauth2/token") # {}

C13_Witness ==
    /\ call.op = "lock"
    /\ Accepted("oauth2/token") # {}
    /\ Rejected("v3/lock/lock") # {}
    /\ dev.access_token # pre.access_token
    /\ dev.access_token_expiry_time # pre.access_token_expiry_time

(***************************************************************************)
(* C14: update() requests detail, then queryOpenState, then the record     *)
(* list; a detail request that is not answered 200 is the only request of  *)
(* the update; a queryOpenState request answered with a non-200 status     *)
(* leaves is_locked at the locked default and the record-list request is   *)
(* still sent.                                                             *)
(***************************************************************************)
Endpoints == [i \in DOMAIN call.reqs |-> call.reqs[i].endpoint]

UpdateOrder == <<"v3/lock/detail", "v3/lock/queryOpenState", "v3/lockRecord/list">>

HasRecord ==
    \E i \in Accepted("v3/lockRecord/list") : call.reqs[i].response.body.list # <<>>

AllSucceeded ==
    /\ call.op = "update"
    /\ Accepted("v3/lock/detail") # {}
    /\ Accepted("v3/lock/queryOpenState") # {}
    /\ HasRecord

DetailFieldsTaken ==
    LET body == call.reqs[1].response.body
    IN  /\ dev.lock_alias = body.lockAlias
        /\ dev.auto_lock_time = body.autoLockTime
        /\ dev.electric_quantity = body.electricQuantity
        /\ dev.firmware_revision = body.firmwareRevision
        /\ dev.hardware_revision = body.hardwareRevision
        /\ dev.model_num = body.modelNum
        /\ dev.passage_mode = body.passageMode
        /\ dev.passage_mode_auto_unlock = body.passageModeAutoUnlock
        /\ dev.sound_volume = body.soundVolume
        /\ dev.tamper_alert = body.tamperAlert
        /\ dev.responsive = TRUE
        /\ is_locked(dev) = ~OpenReported

RecordTaken ==
    LET record == call.reqs[3].response.body.list[1]
    IN  /\ dev.last_user = record.username
        /\ dev.last_entry_time =
              [format |-> "%a, %d %b %Y %H:%M", minute |-> record.lockDate \div 60000]

RecordKept ==
    /\ dev.last_user = pre.last_user
    /\ dev.last_entry_time = pre.last_entry_time

SubCallRejected ==
    \E i \in DOMAIN call.reqs : Answered(i) /\ call.reqs[i].response.status # 200

C15_AllOrNothing ==
    /\ AllSucceeded => DetailFieldsTaken /\ RecordTaken
    /\ (call.op = "update" /\ SubCallRejected) => DeviceState(dev) = DeviceState(pre)

(***************************************************************************)
(* C15 amended: after an update() whose three requests succeed with a      *)
(* non-empty record list every device-state field holds the value of that  *)
(* update's responses; after an update() whose detail request failed no    *)
(* device-state field differs from before; after an update() whose detail  *)
(* request succeeded but whose queryOpenState or record-list request       *)
(* failed, the detail fields, responsiveness and is_locked are overwritten *)
(* all the same (is_locked with the locked default unless state = 1 was    *)
(* reported), and last_user and last_entry_time keep their values when no  *)
(* record was received.                                                    *)
(***************************************************************************)
C15_OverwritePerRequest ==
    call.op = "update" =>
        /\ Accepted("v3/lock/detail") = {} => DeviceState(dev) = DeviceState(pre)
        /\ Accepted("v3/lock/detail") # {} =>
              /\ DetailFieldsTaken
              /\ IF HasRecord THEN RecordTaken ELSE RecordKept

C15_Witness ==
    /\ call.op = "update"
    /\ Accepted("v3/lock/detail") # {}
    /\ Rejected("v3/lockRecord/list") # {}
    /\ pre.last_user # ""
    /\ RecordKept
    /\ is_locked(pre) = FALSE
    /\ is_locked(dev) = TRUE

(***************************************************************************)
(* C16: lock() and unlock() change no cached device field other than       *)
(* is_locked, whatever the responses; an accepted lock() or unlock() on an *)
(* unavailable entity leaves it unavailable.                               *)
(***************************************************************************)
C16_CommandFrame ==
    call.op \in {"lock", "unlock"} =>
        [DeviceState(dev) EXCEPT !.is_locked = is_locked(pre)] = DeviceState(pre)

C16_Witness ==
    /\ call.op = "lock"
    /\ Accepted("v3/lock/lock") # {}
    /\ ~available(pre)
    /\ ~available(dev)

(***************************************************************************)
(* C17 as stated: each lock() or unlock() sends exactly one lock/unlock    *)
(* request and at most one token request, the token request first.         *)
(***************************************************************************)
C17_OneCommand ==
    call.op \in {"lock", "unlock"} =>
        /\ Cardinality(Commands) = 1
        /\ Cardinality(Sent("oauth2/token")) <= 1
        /\ Commands = {Len(call.reqs)}
        /\ Len(call.reqs) <= 2

(***************************************************************************)
(* C17 amended: each lock() or unlock() sends at most one token request    *)
(* and, after it, exactly one lock/unlock request, unless the token        *)
(* request raised a transport exception, which ends the call before the    *)
(* lock/unlock request is sent; no request is sent a second time.          *)
(***************************************************************************)
TokenRaised == \E i \in Sent("oauth2/token") : ~Answered(i)

C17_NoRetry ==
    call.op \in {"lock", "unlock"} =>
        /\ Cardinality(Sent("oauth2/token")) <= 1
        /\ Sent("oauth2/token") \subseteq {1}
        /\ IF TokenRaised
           THEN Commands = {} /\ Len(call.reqs) = 1 /\ call.raised
           ELSE Commands = {Len(call.reqs)} /\ Len(call.reqs) <= 2
        /\ call.op = "lock" => Sent("v3/lock/unlock") = {}
        /\ call.op = "unlock" => Sent("v3/lock/lock") = {}

C17_Witness ==
    /\ call.op = "unlock"
    /\ Rejected("oauth2/token") = {1}
    /\ Rejected("v3/lock/unlock") = {2}
    /\ Len(call.reqs) = 2

====
